---- MODULE Spec2Model ----
(***************************************************************************)
(* Crawl-orchestration engine of the 2GIS parser (src/main.py, with the    *)
(* variants src/alizw/alizve.py and src/src/main.py).                      *)
(*                                                                         *)
(*   Spec       main(): the page loop over the checkpoint file and the     *)
(*              output file, with interruptions and re-runs                *)
(*   SpecPool   DriverPool and the enrichment tasks of a batch             *)
(*   SpecCkpt   save_checkpoint / load_checkpoint on the checkpoint file   *)
(*   SpecRetry  the retry decorator around the enrichment of one item      *)
(*   SpecNav    go_to_next_page, try block by try block                    *)
(*   SpecCsv    save_to_csv on the output file, line by line               *)
(*   SpecClose  DriverPool.close_all, quit by quit                         *)
(*   SpecResume main() as far as the page position goes: the page shown,   *)
(*              the page counter and the checkpoint over re-runs           *)
(*   SpecLead   main() of the lead parser src/src/main.py: the collection  *)
(*              phase and the detail loop                                  *)
(***************************************************************************)
EXTENDS Integers, Sequences, FiniteSets, TLC

\* ------------------------------------------------------------------ bounds
\* MAX_WORKERS is 5 in the code (src/main.py:665): the size main() asks of
\* DriverPool.  Scaled down here; main() only ever sees whether the pool it
\* got holds a session, the sessions themselves are the matter of SpecPool.
MAX_WORKERS == 1
\* max_pages is 100 in the code (src/main.py:706).  Scaled down here.
max_pages == 2
\* Distinct real listing links (identities) the site may show.
MaxIds == 1
\* Listing elements on one page.
MaxPageItems == 2
\* Executions of main() over the same files: the first one and the re-runs
\* after an interruption.
MaxExecs == 2
\* SpecPool: sessions DriverPool managed to create, threads of the executor
\* (the max_workers parameter), items of one batch.
MaxPool == 2
MaxThreads == 2
MaxBatch == 2
\* SpecCsv: records in one save_to_csv call, lines the output file may reach.
MaxRows == 1
MaxCsvLines == 3
\* Page numbers given to save_checkpoint (SpecCkpt).
MaxCkPage == 2
\* Retry policies tried (SpecRetry): max_attempts, delay in tenths of a
\* second, backoff in halves (2 is 1.0, 3 is 1.5, 4 is 2.0).
MaxAttempts == 3
MaxDelay == 3
MaxBackoff == 4

\* ------------------------------------------------------- program constants
\* "Н/Д", the placeholder extract_company_basic_data stores as the link when
\* the name element cannot be read.
ND == 0
\* None, what process_single_company returns from its outer except clause.
NoResult == -1
\* The navigation session: driver = setup_driver() in main(), created before
\* the pool, whose sessions are numbered from 1.
NavDriver == 0

Ids == 1..MaxIds
Links == {ND} \cup Ids

VARIABLES
    ckptFile,        \* CHECKPOINT_FILE on disk
    csvFile,         \* the output file on disk: per link, the number of its rows
    pc,              \* position of the main thread
    current_page,    \* main(): current_page
    processed_urls,  \* main(): processed_urls (the seen-set)
    page,            \* main(): loop variable of the resume replay
    path,            \* main(): which branch of the page loop called save_checkpoint
    execs,           \* executions of main() started so far
    drivers,         \* DriverPool.drivers
    available,       \* DriverPool.available (FIFO queue)
    batch,           \* companies_basic_data handed to the batch processor
    tasks,           \* the futures of the batch, one per element of batch
    companies_data,  \* process_company_batch_parallel: results collected
    max_workers,     \* process_company_batch_parallel: max_workers
    ckptAtStart,     \* history: CHECKPOINT_FILE as it was when this execution loaded it
    dispatched,      \* history: per link, times handed to the batch processor in this execution
    skipped,         \* history: the last extraction loop left out an element as already seen
    saves,           \* history: page index of the last two save_checkpoint calls of this execution
    exit_cause,      \* history: how this execution left the page loop
    replayed,        \* history: what the go_to_next_page calls of the resume replay returned,
                     \*          kept until the page loop takes its first step
    arg,             \* save_checkpoint: its arguments while it runs
    ckptPrev,        \* history: CHECKPOINT_FILE as it was when the running save_checkpoint opened it
    intr,            \* history: the save_checkpoint that was running when the process died
    lastGood,        \* history: arguments of the most recent save_checkpoint that completed
    got,             \* history: what the last load_checkpoint returned
    policy,          \* retry: max_attempts, delay, backoff and which wrapper
    attempt,         \* retry wrapper: attempt
    current_delay,   \* retry wrapper: current_delay
    calls,           \* history: invocations of the wrapped function
    sleeps,          \* history: the delays slept, in order
    raised,          \* history: the attempt whose exception reached the caller
    outcomes,        \* history: how each invocation of the wrapped function went
    log,             \* history: the entries the retry wrapper logged, in order
    result,          \* what the retry wrapper returned
    strategy,        \* go_to_next_page: the strategy being tried (0: not in a call)
    tried,           \* history: the strategies this go_to_next_page call tried, with how each ended
    nav_result,      \* go_to_next_page: what the call returned
    csvText,         \* SpecCsv: the output file, line by line
    csvData,         \* save_to_csv: data, the records still to be written
    file_exists,     \* save_to_csv: file_exists
    quits,           \* history: the sessions driver.quit() was called on, in call order
    quit_errors,     \* history: the positions in quits of the calls that raised
    todo,            \* close_all: what its running loop has still to visit
    created,         \* history: the sessions DriverPool constructed in this execution
    ckptAtError,     \* history: CHECKPOINT_FILE as it was when main() reached its except clause
    exit_status,     \* history: how main() ended
    shown,           \* SpecResume: the listing page the navigation session displays (0: none yet)
    extracted,       \* history: the listing pages an extraction loop has run over, in any execution
    limit,           \* lead parser: args.limit
    keyword,         \* lead parser: position of the keyword loop in include_keywords
    all_results,     \* lead parser: all_results, by link
    idx,             \* lead parser: position of the detail loop in all_results
    body_runs,       \* history: executions of the body of extract_company_details
    detail_errors    \* history: failures logged by the detail loop

diskVars == <<ckptFile, csvFile>>
mainVars == <<pc, current_page, processed_urls, page, path, execs>>
mainHist == <<ckptAtStart, dispatched, skipped, saves, exit_cause, replayed>>
poolVars == <<drivers, available>>
workVars == <<batch, tasks, companies_data, max_workers>>
ckVars == <<arg, ckptPrev, intr, lastGood, got>>
retryVars == <<policy, attempt, current_delay, calls, sleeps, raised,
               outcomes, log, result>>
navVars == <<strategy, tried, nav_result>>
csvVars == <<csvText, csvData, file_exists>>
closeVars == <<quits, quit_errors, todo>>
endVars == <<created, ckptAtError, exit_status>>
posVars == <<shown, extracted>>
leadVars == <<limit, keyword, all_results, idx, body_runs, detail_errors>>

vars == <<diskVars, mainVars, mainHist, poolVars, workVars, ckVars, retryVars,
          navVars, csvVars, closeVars, endVars, posVars, leadVars>>

\* ----------------------------------------------------------------- helpers
Range(s) == {s[i] : i \in 1..Len(s)}

Max(a, b) == IF a >= b THEN a ELSE b

SeqsUpTo(S, n) == UNION {[1..k -> S] : k \in 0..n}

RECURSIVE Pow(_, _)
Pow(x, n) == IF n = 0 THEN 1 ELSE x * Pow(x, n - 1)

\* list(a_set): the elements once each.  Python's order is an implementation
\* detail; ascending order is used as the one order written.
RECURSIVE SetToList(_)
SetToList(S) ==
    IF S = {} THEN <<>>
    ELSE LET m == CHOOSE x \in S : \A y \in S : x <= y
         IN <<m>> \o SetToList(S \ {m})

\* ------------------------------------------------------- checkpoint store
\* The checkpoint file: absent, holding a complete JSON record, or "partial"
\* (opened with mode 'w', hence truncated, the record not yet fully written).
NoFile == [st |-> "absent", last_page |-> 0, processed_urls |-> <<>>]
PartialFile == [st |-> "partial", last_page |-> 0, processed_urls |-> <<>>]

ZeroCheckpoint == [last_page |-> 0, processed_urls |-> {}]

\* open(CHECKPOINT_FILE, 'w'): whatever the file held is gone.
OpenForWrite(f) == PartialFile

\* json.dump({'last_page': page_num, 'processed_urls': list(processed_urls)})
JsonDump(page_num, urls) ==
    [st |-> "valid", last_page |-> page_num, processed_urls |-> SetToList(urls)]

\* load_checkpoint() reading only the page of the record.
load_checkpoint_page_only(f) ==
    IF f.st = "valid"
    THEN [last_page |-> f.last_page, processed_urls |-> {}]
    ELSE ZeroCheckpoint

\* load_checkpoint(): no file, or a file json.load cannot parse, gives the
\* zero value; otherwise the page and set(list) of the record.
load_checkpoint(f) ==
    IF f.st = "valid"
    THEN [last_page |-> f.last_page, processed_urls |-> Range(f.processed_urls)]
    ELSE ZeroCheckpoint

\* The checkpoint file surviving the end of the run.
KeepCheckpoint(f) == f

\* if os.path.exists(CHECKPOINT_FILE): os.remove(CHECKPOINT_FILE)
RemoveCheckpoint(f) == NoFile

\* ------------------------------------------------------------ output file
\* save_to_csv opens the file in mode 'a' and writes one row per record; the
\* file is kept as the number of rows it holds for each link.
AppendRows(file, rows) ==
    [l \in Links |-> file[l] + Cardinality({i \in DOMAIN rows : rows[i] = l})]

\* ------------------------------------------------------------ driver pool
\* Queue.get() that leaves the item on the queue.
QueuePeek(q) == [item |-> Head(q), rest |-> q]

\* Queue.get(): the head of the queue and the queue without it.
QueueGet(q) == [item |-> Head(q), rest |-> Tail(q)]

\* Queue.put that enqueues the driver twice.
QueuePutTwice(q, d) == Append(Append(q, d), d)

\* Queue.put(driver)
QueuePut(q, d) == Append(q, d)

\* A constructor that keeps every session but queues all except the last.
NewPoolQueueShort(n) == [i \in 1..(n - 1) |-> i]

\* DriverPool.__init__: n of the `size` setup_driver() calls succeeded; the
\* sessions are named 1..n in creation order and all put on the queue.
NewPoolDrivers(n) == 1..n
NewPoolQueue(n) == [i \in 1..n |-> i]

\* The states a pool of sessions ds can be in: some of them on the queue, in
\* any order, the others checked out.
PoolQueues(ds) ==
    {q \in SeqsUpTo(ds, Cardinality(ds)) :
        \A i, j \in DOMAIN q : i # j => q[i] # q[j]}

\* driver.quit() either goes through or raises.
QuitOutcomes == {"ok", "raised"}

\* driver.quit() outside a try block: an error ends close_all.
QuitUnguarded(out) == IF out = "raised" THEN "propagate" ELSE "continue"

\* try: driver.quit() / except: pass
QuitGuarded(out) == "continue"

\* for driver in self.drivers: the list, in creation order.
DriverList(ds) == SetToList(ds)

\* A close_all that quits nothing.
close_none(ds, q) == <<>>

\* close_all as a whole: the sessions driver.quit() is called on, in call
\* order: those drained from the queue, then every session of self.drivers.
close_all(ds, q) == q \o DriverList(ds)

\* ---------------------------------------------------------- deduplication
\* The extraction loop with the seen-set updated only after the page.
RECURSIVE FilterPageLateAdd(_, _, _, _)
FilterPageLateAdd(elems, seen, acc, skip) ==
    IF elems = <<>>
    THEN [batch |-> acc, seen |-> seen \cup Range(acc), skipped |-> skip]
    ELSE LET link == Head(elems)
         IN IF link \in seen
            THEN FilterPageLateAdd(Tail(elems), seen, acc, TRUE)
            ELSE FilterPageLateAdd(Tail(elems), seen, Append(acc, link), skip)

\* The extraction loop of main(): an element whose link is in the seen-set is
\* skipped, any other is appended to the batch and its link added to the set.
RECURSIVE FilterPage(_, _, _, _)
FilterPage(elems, seen, acc, skip) ==
    IF elems = <<>> THEN [batch |-> acc, seen |-> seen, skipped |-> skip]
    ELSE LET link == Head(elems)
         IN IF link \in seen
            THEN FilterPage(Tail(elems), seen, acc, TRUE)
            ELSE FilterPage(Tail(elems), seen \cup {link}, Append(acc, link), skip)

\* What the extraction loop can make of a listing page, over the elements
\* the page may hold.
PageBatches(seen) ==
    {FilterPage(elems, seen, <<>>, FALSE) : elems \in SeqsUpTo(Links, MaxPageItems)}

\* ------------------------------------------------- output file, by line
\* Three of the 22 columns of fieldnames, in their order there: "Название",
\* "Режим работы (тип)", "Тип предприятия".
FieldNames == <<"name", "work_mode", "business_type">>

\* The text "Н/Д" in a cell.
NA == "n/a"

\* What csv.DictWriter writes for a key the row lacks (restval).
Restval == ""

\* A record as process_company_batch_parallel returns it: a dict that may
\* lack any key; the work-mode column is never set before save_to_csv.
RecordValues(f) == IF f = "name" THEN {NA, "acme"} ELSE {NA, "online"}

Records ==
    UNION {[keys -> {NA, "acme", "online"}] : keys \in SUBSET {"name", "business_type"}}

Companies == {c \in Records : \A f \in DOMAIN c : c[f] \in RecordValues(f)}

\* determine_work_mode: the placeholder stays the placeholder, a business
\* type naming an online indicator gives "Онлайн".
determine_work_mode(business_type) ==
    IF business_type = NA THEN NA ELSE "Online"

Get(company, f, default) == IF f \in DOMAIN company THEN company[f] ELSE default

\* save_to_csv without the setdefault loop.
NormaliseNoDefault(company) ==
    [f \in DOMAIN company \cup {"work_mode"} |->
        IF f = "work_mode"
        THEN determine_work_mode(Get(company, "business_type", NA))
        ELSE company[f]]

\* save_to_csv, per company: the work mode is computed from the business
\* type and every field of fieldnames the record lacks is set to "Н/Д".
Normalise(company) ==
    [f \in Range(FieldNames) |->
        IF f = "work_mode"
        THEN determine_work_mode(Get(company, "business_type", NA))
        ELSE Get(company, f, NA)]

\* csv.DictWriter: the cells of a row in the order of fieldnames.
DictRow(company) ==
    [i \in DOMAIN FieldNames |-> Get(company, FieldNames[i], Restval)]

\* writer.writeheader()
Header == FieldNames

\* open(file_path, 'w'): the file is emptied.
OpenTruncate(f) == [exists |-> TRUE, lines |-> <<>>]

\* open(file_path, 'a', ...): the file is created when missing, its content
\* stays.
OpenAppend(f) == [exists |-> TRUE, lines |-> f.lines]

WriteLine(f, line) == [f EXCEPT !.lines = Append(@, line)]

\* ------------------------------------------------------------- pagination
StrategyOutcomes == {"ok", "fail"}

\* go_to_next_page: numbered link, next arrow, load more; True at the first
\* strategy that goes through, False when none does.
go_to_next_page(outs) == outs[1] = "ok" \/ outs[2] = "ok" \/ outs[3] = "ok"

\* What a go_to_next_page call can return, over the outcomes of its three
\* strategies.
NavResults == {go_to_next_page(outs) : outs \in [1..3 -> StrategyOutcomes]}

\* The strategies of go_to_next_page in the order of its three try blocks:
\* the numbered page link, the next arrow, the "show more" button.
Strategies == <<"numbered_page", "next_arrow", "load_more">>

\* How one try block can end: the wait for a clickable control times out
\* (nothing was clicked); the control is clicked and wait_for_page_load times
\* out; or the block runs through to return True.
StepOutcomes == {"timeout", "settle_timeout", "ok"}

\* go_to_next_page going on to the next try block whatever the outcome.
StrategyStepAll(s, out) ==
    IF s < Len(Strategies) THEN [ret |-> "none", next |-> s + 1]
    ELSE [ret |-> IF out = "ok" THEN "true" ELSE "false", next |-> 0]

\* After try block s of go_to_next_page: return True when it ran through,
\* else (except: pass) the next block, and return False after the last.
StrategyStep(s, out) ==
    IF out = "ok" THEN [ret |-> "true", next |-> 0]
    ELSE IF s < Len(Strategies) THEN [ret |-> "none", next |-> s + 1]
    ELSE [ret |-> "false", next |-> 0]

\* range(1, current_page + 1) cut short by one.
ReplayMoreShort(pg, last) == pg + 1 < last

\* for page in range(1, current_page + 1): another iteration follows that of
\* page pg.
ReplayMore(pg, last) == pg < last

\* current_page -= 1
PrevPageNum(p) == p - 1

\* current_page += 1
NextPageNum(p) == p + 1

\* ------------------------------------------------------------------ tasks
NewTask == [pc |-> "queued", driver |-> 0, gets |-> 0, rets |-> 0, outcome |-> "none"]

Running(t) == tasks[t].pc \in {"get", "body"}

\* How the body of process_single_company can end: normally; with
\* get_company_details_optimized raising after its retries (inner except); or
\* with a failure elsewhere in the body (outer except).  The placeholder link
\* is not enriched.
BodyOutcomes(link) ==
    IF link = ND THEN {"ok", "body_raised"}
    ELSE {"ok", "enrich_raised", "body_raised"}

\* process_single_company without its inner except: a task whose enrichment
\* raised hands back nothing.
TaskResultDropFailed(link, outcome) == IF outcome = "ok" THEN link ELSE NoResult

\* What the task hands back: the company record (named by its link) on the
\* normal path and when the enrichment raised, None from the outer except.
TaskResult(link, outcome) == IF outcome = "body_raised" THEN NoResult ELSE link

\* process_single_company returning the driver only when the body did not fail.
ReturnUnlessFailed(q, d, outcome) ==
    IF outcome = "body_raised" THEN [available |-> q, rets |-> 0]
    ELSE [available |-> QueuePut(q, d), rets |-> 1]

\* The finally clause of process_single_company: the driver goes back to the
\* pool whatever the outcome of the body.
FinallyReturn(q, d, outcome) == [available |-> QueuePut(q, d), rets |-> 1]

\* The batch call returning at the first future that is done.
AnyCompleted(ts) == \E t \in DOMAIN ts : ts[t].pc = "done"

\* for future in as_completed(futures) runs until every future is done, and
\* the executor's with-block joins its threads.
AllCompleted(ts) == \A t \in DOMAIN ts : ts[t].pc = "done"

\* as_completed with the result thrown away.
CollectDropped(results, res) == results

\* as_completed: a result that is not None is collected.
Collect(results, res) == IF res = NoResult THEN results ELSE Append(results, res)

\* ------------------------------------------------------------------ retry
\* A delay is kept exactly, as a fraction of a second.
Frac(n, q) == [num |-> n, den |-> q]
FracEq(x, y) == x.num * y.den = y.num * x.den

\* delay in tenths of a second, backoff in halves.
PolicyDelay(pol) == Frac(pol.delay, 10)
TimesBackoff(pol, x) == Frac(x.num * pol.backoff, x.den * 2)

\* if attempt > max_attempts
RetryExhaustedLate(att, max_attempts) == att > max_attempts

\* if attempt >= max_attempts: ... raise
RetryExhausted(att, max_attempts) == att >= max_attempts

\* src/src/main.py sleeping delay * (backoff ** attempt).
SleepTimeLate(pol, att, cur) ==
    IF pol.impl = "main" THEN cur
    ELSE Frac(pol.delay * Pow(pol.backoff, att), 10 * Pow(2, att))

\* What the wrapper sleeps after failed attempt number att: current_delay in
\* src/main.py and src/alizw/alizve.py, delay * (backoff ** (attempt - 1)) in
\* src/src/main.py.
SleepTime(pol, att, cur) ==
    IF pol.impl = "main" THEN cur
    ELSE Frac(pol.delay * Pow(pol.backoff, att - 1), 10 * Pow(2, att - 1))

\* current_delay *= backoff (src/main.py); src/src/main.py keeps no such variable.
NextDelay(pol, cur) == IF pol.impl = "main" THEN TimesBackoff(pol, cur) ELSE cur

\* What an invocation of the wrapped function can fail with: a timeout or a
\* stale element (TimeoutException, StaleElementReferenceException), any
\* other Exception, or an exception that is not an Exception
\* (KeyboardInterrupt, SystemExit).
FailureKinds == {"transient", "other", "base"}

\* Where in the wrapped function the failure happens.  The body of
\* get_company_details_optimized (get_company_website in
\* src/alizw/alizve.py) is one try / except Exception that returns the
\* placeholder record; only driver.current_window_handle precedes the try.
\* extract_company_details of src/src/main.py has no such try around
\* driver.get and the wait.
Wheres(impl) == IF impl = "main" THEN {"unguarded", "guarded"} ELSE {"unguarded"}

Events(impl) ==
    {[where |-> "none", kind |-> "ok"]}
      \cup [where : Wheres(impl), kind : FailureKinds]

\* except Exception as e
except_Exception(kind) == kind # "base"

\* What the wrapper sees of one invocation: the value returned ("ok" for the
\* details, "placeholder" for the record of the function's own except
\* clause) or the exception raised.
FuncResult(ev) ==
    IF ev.kind = "ok" THEN "ok"
    ELSE IF ev.where = "guarded" /\ except_Exception(ev.kind) THEN "placeholder"
    ELSE ev.kind

\* A wrapper that logs nothing.
LogNothing(impl, att, max_attempts) == <<>>

\* What the wrapper logs for failed attempt number att: src/main.py logs an
\* error when the attempts are used up and a warning otherwise;
\* src/src/main.py logs the warning first, always.
LogFailure(impl, att, max_attempts) ==
    IF att >= max_attempts
    THEN IF impl = "main" THEN <<"error">> ELSE <<"warning", "error">>
    ELSE <<"warning">>

Policies ==
    [impl : {"main", "lead"}, max_attempts : 1..MaxAttempts,
     delay : 1..MaxDelay, backoff : 2..MaxBackoff]

\* ----------------------------------------------- initial values, per part
NoIntr == [during |-> FALSE, prev |-> NoFile, new |-> NoFile]
NoArgs == [some |-> FALSE, last_page |-> 0, processed_urls |-> {}]
Args(p, urls) == [some |-> TRUE, last_page |-> p, processed_urls |-> urls]

DiskInit ==
    /\ ckptFile = NoFile
    /\ csvFile = [l \in Links |-> 0]

MainRest ==
    /\ current_page = 0
    /\ processed_urls = {}
    /\ page = 0
    /\ path = "none"
    /\ execs = 1
    /\ ckptAtStart = NoFile
    /\ dispatched = [l \in Links |-> 0]
    /\ skipped = FALSE
    /\ saves = <<0, 0>>
    /\ exit_cause = "none"
    /\ replayed = <<>>

PoolRest ==
    /\ drivers = {}
    /\ available = <<>>
    /\ batch = <<>>
    /\ tasks = <<>>
    /\ companies_data = <<>>
    /\ max_workers = MAX_WORKERS

CkRest ==
    /\ arg = NoArgs
    /\ ckptPrev = NoFile
    /\ intr = NoIntr
    /\ lastGood = NoArgs
    /\ got = ZeroCheckpoint

RetryRest ==
    /\ policy = [impl |-> "main", max_attempts |-> 1, delay |-> 1, backoff |-> 2]
    /\ attempt = 0
    /\ current_delay = Frac(0, 1)
    /\ calls = 0
    /\ sleeps = <<>>
    /\ raised = 0
    /\ outcomes = <<>>
    /\ log = <<>>
    /\ result = "none"

NavRest ==
    /\ strategy = 0
    /\ tried = <<>>
    /\ nav_result = "none"

CsvRest ==
    /\ csvText = [exists |-> FALSE, lines |-> <<>>]
    /\ csvData = <<>>
    /\ file_exists = FALSE

CloseRest ==
    /\ quits = <<>>
    /\ quit_errors = {}
    /\ todo = <<>>

PosRest ==
    /\ shown = 0
    /\ extracted = {}

LeadRest ==
    /\ limit = 0
    /\ keyword = 0
    /\ all_results = <<>>
    /\ idx = 0
    /\ body_runs = 0
    /\ detail_errors = 0

EndRest ==
    /\ created = {}
    /\ ckptAtError = NoFile
    /\ exit_status = "none"

\* The memory of a process that is gone: the same values as before main() ran.
VolatileLost ==
    /\ current_page' = 0
    /\ processed_urls' = {}
    /\ page' = 0
    /\ path' = "none"
    /\ drivers' = {}
    /\ available' = <<>>
    /\ batch' = <<>>
    /\ companies_data' = <<>>
    /\ ckptAtStart' = NoFile
    /\ dispatched' = [l \in Links |-> 0]
    /\ skipped' = FALSE
    /\ saves' = <<0, 0>>
    /\ exit_cause' = "none"
    /\ replayed' = <<>>

\* ==================================================================== Spec
Init ==
    /\ pc = "start"
    /\ DiskInit /\ MainRest /\ PoolRest /\ CkRest /\ RetryRest /\ NavRest /\ CsvRest
    /\ CloseRest /\ EndRest /\ PosRest /\ LeadRest

\* main() up to the page loop: load_checkpoint, setup_driver, DriverPool (n of
\* its sessions could be created), the search, the resume test and, when there
\* is nothing to replay, current_page = max(1, current_page).  A failure of
\* the navigation driver or of the search is fatal: the except clause logs
\* it, the finally clause closes what the pool holds and main() returns.
Start ==
    /\ pc = "start"
    /\ LET checkpoint == load_checkpoint(ckptFile) IN
       \E ok \in BOOLEAN, n \in 0..MAX_WORKERS :
            IF ok
            THEN /\ ckptAtStart' = ckptFile
                 /\ processed_urls' = checkpoint.processed_urls
                 /\ drivers' = NewPoolDrivers(n)
                 /\ available' = NewPoolQueue(n)
                 /\ created' = NewPoolDrivers(n)
                 /\ UNCHANGED <<quits, ckptAtError, exit_status>>
                 /\ IF checkpoint.last_page > 0
                    THEN /\ current_page' = checkpoint.last_page
                         /\ page' = 1
                         /\ pc' = "replay"
                    ELSE /\ current_page' = Max(1, checkpoint.last_page)
                         /\ page' = 0
                         /\ pc' = "loop"
            ELSE /\ pc' = "failed"
                 /\ created' = NewPoolDrivers(n)
                 /\ quits' = close_all(NewPoolDrivers(n), NewPoolQueue(n))
                 /\ ckptAtError' = ckptFile
                 /\ exit_status' = "returned"
                 /\ UNCHANGED <<current_page, processed_urls, drivers, available,
                                page, ckptAtStart>>
    /\ UNCHANGED <<diskVars, path, execs, dispatched, skipped, saves, exit_cause,
                   replayed, workVars, ckVars, retryVars, navVars, csvVars,
                   quit_errors, todo, posVars, leadVars>>

\* One iteration of the resume replay, for page in range(1, current_page + 1):
\* go_to_next_page(driver, page); a failed advance breaks out of the replay.
\* After the replay current_page = max(1, current_page).
Replay ==
    /\ pc = "replay"
    /\ \E moved \in NavResults :
         /\ replayed' = Append(replayed, moved)
         /\ IF moved /\ ReplayMore(page, current_page)
            THEN /\ page' = page + 1
                 /\ UNCHANGED <<pc, current_page>>
            ELSE /\ page' = 0
                 /\ current_page' = Max(1, current_page)
                 /\ pc' = "loop"
    /\ UNCHANGED <<diskVars, processed_urls, path, execs, ckptAtStart, dispatched,
                   skipped, saves, exit_cause, poolVars, workVars, ckVars,
                   retryVars, navVars, csvVars, closeVars, endVars, posVars,
                   leadVars>>

\* while current_page <= max_pages: the bound is passed.
LoopExit ==
    /\ pc = "loop"
    /\ ~(current_page <= max_pages)
    /\ pc' = "finish"
    /\ exit_cause' = "max_pages"
    /\ replayed' = <<>>
    /\ UNCHANGED <<diskVars, current_page, processed_urls, page, path, execs,
                   ckptAtStart, dispatched, skipped, saves, poolVars, workVars,
                   ckVars, retryVars, navVars, csvVars, closeVars, endVars,
                   posVars, leadVars>>

\* One pass over the listing page: find_elements, then the extraction loop.
\* found = FALSE is "no company elements"; elems are the links of the elements
\* that could still be re-found while the loop ran.
Extract ==
    /\ pc = "loop"
    /\ current_page <= max_pages
    /\ replayed' = <<>>
    /\ \E found \in BOOLEAN, f \in PageBatches(processed_urls) :
         IF ~found
         THEN /\ f = FilterPage(<<>>, processed_urls, <<>>, FALSE)
              /\ pc' = "finish"
              /\ exit_cause' = "no_elements"
              /\ UNCHANGED <<processed_urls, batch, dispatched, skipped>>
         ELSE /\ processed_urls' = f.seen
              /\ skipped' = f.skipped
              /\ batch' = f.batch
              /\ dispatched' =
                   [l \in Links |->
                      dispatched[l] + Cardinality({t \in DOMAIN f.batch : f.batch[t] = l})]
              /\ pc' = IF f.batch = <<>> THEN "advance_empty" ELSE "batch"
              /\ UNCHANGED exit_cause
    /\ UNCHANGED <<diskVars, current_page, page, path, execs, ckptAtStart, saves,
                   poolVars, tasks, max_workers, companies_data, ckVars, retryVars, navVars, csvVars,
                   closeVars, endVars, posVars, leadVars>>

\* An exception in the page loop outside the places that swallow theirs
\* (find_elements raising, say): the except clause of main() logs it, the
\* finally clause calls close_all and main() returns.
Fatal ==
    /\ pc = "loop"
    /\ current_page <= max_pages
    /\ pc' = "failed"
    /\ quits' = close_all(drivers, available)
    /\ ckptAtError' = ckptFile
    /\ exit_status' = "returned"
    /\ VolatileLost
    /\ UNCHANGED <<diskVars, execs, tasks, max_workers, ckVars, retryVars,
                   navVars, csvVars, quit_errors, todo, created, posVars,
                   leadVars>>

\* process_company_batch_parallel as main() sees it: it returns once every
\* task of the batch has ended, with the results that are not None.  With no
\* session in the pool no task gets past get_driver and it never returns.
\* The results are listed in batch order; the order they complete in is
\* arbitrary and the output file is kept as row counts.
BatchResults(items, outs) ==
    LET res == [t \in DOMAIN items |-> TaskResult(items[t], outs[t])]
    IN SelectSeq(res, LAMBDA r : r # NoResult)

ProcessBatch ==
    /\ pc = "batch"
    /\ drivers # {}
    /\ \E outs \in [DOMAIN batch -> {"ok", "enrich_raised", "body_raised"}] :
         /\ \A t \in DOMAIN batch : outs[t] \in BodyOutcomes(batch[t])
         /\ companies_data' = BatchResults(batch, outs)
    /\ pc' = "csv"
    /\ batch' = <<>>
    /\ skipped' = FALSE
    /\ UNCHANGED <<replayed, diskVars, current_page, processed_urls, page, path, execs,
                   ckptAtStart, dispatched, saves, exit_cause, poolVars, tasks,
                   max_workers, ckVars, retryVars, navVars, csvVars,
                   closeVars, endVars, posVars, leadVars>>

\* if all_companies_data: save_to_csv(...).  keep are the rows that reach the
\* file: all of them, or, when the write fails (the error is logged and
\* swallowed), those written before it failed; rows complete in any order, so
\* that is any part of them.
SaveToCsv ==
    /\ pc = "csv"
    /\ \E keep \in SUBSET DOMAIN companies_data :
         csvFile' = AppendRows(csvFile, [i \in keep |-> companies_data[i]])
    /\ pc' = "ckpt_open"
    /\ path' = "nonempty"
    /\ companies_data' = <<>>
    /\ UNCHANGED <<ckptFile, current_page, processed_urls, page, execs,
                   mainHist, poolVars, batch, tasks, max_workers, ckVars, retryVars, navVars, csvVars,
                   closeVars, endVars, posVars, leadVars>>

AfterSave == IF path = "nonempty" THEN "advance" ELSE "loop"

\* save_checkpoint(current_page, processed_urls), first half:
\* open(CHECKPOINT_FILE, 'w').  A failure to open is logged and swallowed.
SaveCheckpointOpen ==
    /\ pc = "ckpt_open"
    /\ saves' = <<saves[2], current_page>>
    /\ \E ok \in BOOLEAN :
         IF ok
         THEN /\ ckptFile' = OpenForWrite(ckptFile)
              /\ pc' = "ckpt_dump"
         ELSE /\ pc' = AfterSave
              /\ UNCHANGED ckptFile
    /\ UNCHANGED <<replayed, csvFile, current_page, processed_urls, page, path, execs,
                   ckptAtStart, dispatched, skipped, exit_cause, poolVars,
                   workVars, ckVars, retryVars, navVars, csvVars,
                   closeVars, endVars, posVars, leadVars>>

\* save_checkpoint, second half: json.dump and the close of the file.  A
\* write error is logged and swallowed, the file stays as far as it got.
SaveCheckpointDump ==
    /\ pc = "ckpt_dump"
    /\ \E ok \in BOOLEAN :
         IF ok
         THEN ckptFile' = JsonDump(current_page, processed_urls)
         ELSE UNCHANGED ckptFile
    /\ pc' = AfterSave
    /\ UNCHANGED <<csvFile, current_page, processed_urls, page, path, execs,
                   mainHist, poolVars, workVars, ckVars, retryVars, navVars, csvVars,
                   closeVars, endVars, posVars, leadVars>>

\* Non-empty batch: go_to_next_page after the checkpoint; break when it fails.
Advance ==
    /\ pc = "advance"
    /\ \E moved \in NavResults :
         IF moved
         THEN /\ current_page' = NextPageNum(current_page)
              /\ pc' = "loop"
              /\ UNCHANGED exit_cause
         ELSE /\ pc' = "finish"
              /\ exit_cause' = "exhausted"
              /\ UNCHANGED current_page
    /\ path' = "none"
    /\ UNCHANGED <<replayed, diskVars, processed_urls, page, execs, ckptAtStart, dispatched,
                   skipped, saves, poolVars, workVars, ckVars, retryVars, navVars, csvVars,
                   closeVars, endVars, posVars, leadVars>>

\* Empty batch: go_to_next_page first, then the checkpoint of the new page.
AdvanceEmpty ==
    /\ pc = "advance_empty"
    /\ \E moved \in NavResults :
         IF moved
         THEN /\ current_page' = NextPageNum(current_page)
              /\ pc' = "ckpt_open"
              /\ path' = "empty"
              /\ UNCHANGED exit_cause
         ELSE /\ pc' = "finish"
              /\ exit_cause' = "exhausted"
              /\ UNCHANGED <<current_page, path>>
    /\ skipped' = FALSE
    /\ UNCHANGED <<replayed, diskVars, processed_urls, page, execs, ckptAtStart, dispatched,
                   saves, poolVars, workVars, ckVars, retryVars, navVars, csvVars,
                   closeVars, endVars, posVars, leadVars>>

\* After the loop: close_all, then the checkpoint file is removed if present;
\* the finally clause calls close_all again, on the queue the first call
\* emptied, and main() returns.
Finish ==
    /\ pc = "finish"
    /\ pc' = "done"
    /\ ckptFile' = RemoveCheckpoint(ckptFile)
    /\ quits' = close_all(drivers, available) \o close_all(drivers, <<>>)
    /\ exit_status' = "returned"
    /\ VolatileLost
    /\ UNCHANGED <<csvFile, execs, tasks, max_workers, ckVars, retryVars,
                   navVars, csvVars, quit_errors, todo, created, ckptAtError,
                   posVars, leadVars>>

\* The process is killed (or interrupted from the keyboard) anywhere after
\* load_checkpoint: everything in memory is lost, the files stay as they are.
Kill ==
    /\ pc \in {"replay", "loop", "batch", "csv", "ckpt_open", "ckpt_dump",
               "advance", "advance_empty", "finish"}
    /\ pc' = "killed"
    /\ exit_status' = "killed"
    /\ VolatileLost
    /\ UNCHANGED <<diskVars, execs, tasks, max_workers, ckVars, retryVars,
                   navVars, csvVars, closeVars, created, ckptAtError, posVars,
                   leadVars>>

\* main() is run again after an execution that was killed or that ended in
\* its except clause: both leave the checkpoint file in place.
Restart ==
    /\ pc \in {"killed", "failed"}
    /\ execs < MaxExecs
    /\ pc' = "start"
    /\ execs' = execs + 1
    /\ quits' = <<>>
    /\ created' = {}
    /\ ckptAtError' = NoFile
    /\ exit_status' = "none"
    /\ VolatileLost
    /\ UNCHANGED <<diskVars, tasks, max_workers, ckVars, retryVars, navVars,
                   csvVars, quit_errors, todo, posVars, leadVars>>

Next ==
    \/ Start
    \/ Replay
    \/ LoopExit
    \/ Extract
    \/ Fatal
    \/ ProcessBatch
    \/ SaveToCsv
    \/ SaveCheckpointOpen
    \/ SaveCheckpointDump
    \/ Advance
    \/ AdvanceEmpty
    \/ Finish
    \/ Kill
    \/ Restart

Spec == Init /\ [][Next]_vars

\* ================================================================ SpecPool
\* A DriverPool that created n of its sessions, and the calls of
\* process_company_batch_parallel on it, task by task.
InitPool ==
    /\ pc = "pool_idle"
    /\ \E n \in 0..MaxPool :
         /\ drivers = NewPoolDrivers(n)
         /\ available = NewPoolQueue(n)
    /\ max_workers \in 1..MaxThreads
    /\ batch = <<>>
    /\ tasks = <<>>
    /\ companies_data = <<>>
    /\ DiskInit /\ MainRest /\ CkRest /\ RetryRest /\ NavRest /\ CsvRest /\ CloseRest /\ EndRest /\ PosRest /\ LeadRest

\* process_company_batch_parallel(items, driver_pool, max_workers): every
\* item is submitted to the executor.
Submit ==
    /\ pc \in {"pool_idle", "pool_returned"}
    /\ \E items \in SeqsUpTo(Links, MaxBatch) \ {<<>>} :
         /\ batch' = items
         /\ tasks' = [t \in DOMAIN items |-> NewTask]
    /\ companies_data' = <<>>
    /\ pc' = "batch"
    /\ UNCHANGED <<diskVars, current_page, processed_urls, page, path, execs,
                   mainHist, poolVars, max_workers, ckVars, retryVars, navVars, csvVars,
                   closeVars, endVars, posVars, leadVars>>

\* A thread of the executor (there are at most max_workers) takes the oldest
\* queued task and enters process_single_company.
TaskStart(t) ==
    /\ pc = "batch"
    /\ tasks[t].pc = "queued"
    /\ \A u \in 1..(t - 1) : tasks[u].pc # "queued"
    /\ Cardinality({u \in DOMAIN tasks : Running(u)}) < max_workers
    /\ tasks' = [tasks EXCEPT ![t].pc = "get"]
    /\ UNCHANGED <<diskVars, mainVars, mainHist, poolVars, batch, companies_data,
                   max_workers, ckVars, retryVars, navVars, csvVars,
                   closeVars, endVars, posVars, leadVars>>

\* driver = driver_pool.get_driver(): blocks while the queue is empty.
TaskGet(t) ==
    /\ pc = "batch"
    /\ tasks[t].pc = "get"
    /\ available # <<>>
    /\ LET g == QueueGet(available) IN
       /\ available' = g.rest
       /\ tasks' = [tasks EXCEPT ![t].pc = "body", ![t].driver = g.item,
                                 ![t].gets = @ + 1]
    /\ UNCHANGED <<diskVars, mainVars, mainHist, drivers, batch, companies_data,
                   max_workers, ckVars, retryVars, navVars, csvVars,
                   closeVars, endVars, posVars, leadVars>>

\* The body of process_single_company with its finally clause, and the
\* collection of the result by as_completed.
TaskFinish(t) ==
    /\ pc = "batch"
    /\ tasks[t].pc = "body"
    /\ \E outcome \in BodyOutcomes(batch[t]) :
         LET fin == FinallyReturn(available, tasks[t].driver, outcome) IN
         /\ available' = fin.available
         /\ tasks' = [tasks EXCEPT ![t].pc = "done", ![t].rets = @ + fin.rets,
                                   ![t].outcome = outcome]
         /\ companies_data' = Collect(companies_data, TaskResult(batch[t], outcome))
    /\ UNCHANGED <<diskVars, mainVars, mainHist, drivers, batch, max_workers,
                   ckVars, retryVars, navVars, csvVars, closeVars, endVars,
                   posVars, leadVars>>

\* The executor's with-block ends once every future is done;
\* process_company_batch_parallel returns companies_data and its futures are
\* gone.
BatchReturn ==
    /\ pc = "batch"
    /\ AllCompleted(tasks)
    /\ pc' = "pool_returned"
    /\ tasks' = <<>>
    /\ UNCHANGED <<diskVars, current_page, processed_urls, page, path, execs,
                   mainHist, poolVars, batch, companies_data, max_workers,
                   ckVars, retryVars, navVars, csvVars, closeVars, endVars,
                   posVars, leadVars>>

NextPool ==
    \/ Submit
    \/ \E t \in DOMAIN tasks : TaskStart(t)
    \/ \E t \in DOMAIN tasks : TaskGet(t)
    \/ \E t \in DOMAIN tasks : TaskFinish(t)
    \/ BatchReturn

SpecPool == InitPool /\ [][NextPool]_vars

\* The executor's threads keep running: a step that can be taken (a thread
\* picking up a task, a get_driver on a non-empty queue, a task body that
\* terminates, the return of the batch call) is taken.
SpecPoolFair == SpecPool /\ WF_vars(NextPool)

\* ================================================================ SpecCkpt
\* The checkpoint file under save_checkpoint, load_checkpoint, the removal at
\* the end of main() and the death of the process, for any arguments.
InitCkpt ==
    /\ pc = "ck_idle"
    /\ DiskInit /\ MainRest /\ PoolRest /\ CkRest /\ RetryRest /\ NavRest /\ CsvRest
    /\ CloseRest /\ EndRest /\ PosRest /\ LeadRest

CkIdle == pc \in {"ck_idle", "ck_loaded"}

\* save_checkpoint(page_num, processed_urls), first half:
\* open(CHECKPOINT_FILE, 'w').  A failure to open is logged and swallowed.
CkOpen ==
    /\ CkIdle
    /\ intr' = NoIntr
    /\ \E p \in 0..MaxCkPage, urls \in SUBSET Links, ok \in BOOLEAN :
         IF ok
         THEN /\ arg' = Args(p, urls)
              /\ ckptPrev' = ckptFile
              /\ ckptFile' = OpenForWrite(ckptFile)
              /\ pc' = "ck_dump"
         ELSE /\ p = 0 /\ urls = {}
              /\ pc' = "ck_idle"
              /\ UNCHANGED <<arg, ckptPrev, ckptFile>>
    /\ UNCHANGED <<csvFile, current_page, processed_urls, page, path, execs,
                   mainHist, poolVars, workVars, lastGood, got, retryVars, navVars, csvVars,
                   closeVars, endVars, posVars, leadVars>>

\* save_checkpoint, second half: json.dump and the close of the file.  A
\* write error is logged and swallowed, the file stays as far as it got.
CkDump ==
    /\ pc = "ck_dump"
    /\ \E ok \in BOOLEAN :
         IF ok
         THEN /\ ckptFile' = JsonDump(arg.last_page, arg.processed_urls)
              /\ lastGood' = arg
         ELSE UNCHANGED <<ckptFile, lastGood>>
    /\ arg' = NoArgs
    /\ ckptPrev' = NoFile
    /\ pc' = "ck_idle"
    /\ UNCHANGED <<csvFile, current_page, processed_urls, page, path, execs,
                   mainHist, poolVars, workVars, intr, got, retryVars, navVars, csvVars,
                   closeVars, endVars, posVars, leadVars>>

\* The process dies, between two operations or inside save_checkpoint.
CkCrash ==
    /\ pc \in {"ck_idle", "ck_loaded", "ck_dump"}
    /\ intr' = IF pc = "ck_dump"
               THEN [during |-> TRUE, prev |-> ckptPrev,
                     new |-> JsonDump(arg.last_page, arg.processed_urls)]
               ELSE NoIntr
    /\ arg' = NoArgs
    /\ ckptPrev' = NoFile
    /\ got' = ZeroCheckpoint
    /\ pc' = "ck_down"
    /\ UNCHANGED <<diskVars, current_page, processed_urls, page, path, execs,
                   mainHist, poolVars, workVars, lastGood, retryVars, navVars, csvVars,
                   closeVars, endVars, posVars, leadVars>>

\* checkpoint = load_checkpoint(), in a running process or a new one.
CkLoad ==
    /\ pc \in {"ck_idle", "ck_loaded", "ck_down"}
    /\ got' = load_checkpoint(ckptFile)
    /\ pc' = "ck_loaded"
    /\ UNCHANGED <<diskVars, current_page, processed_urls, page, path, execs,
                   mainHist, poolVars, workVars, arg, ckptPrev, intr, lastGood,
                   retryVars, navVars, csvVars, closeVars, endVars, posVars,
                   leadVars>>

\* if os.path.exists(CHECKPOINT_FILE): os.remove(CHECKPOINT_FILE)
CkRemove ==
    /\ CkIdle
    /\ ckptFile.st # "absent"
    /\ ckptFile' = RemoveCheckpoint(ckptFile)
    /\ lastGood' = NoArgs
    /\ pc' = "ck_idle"
    /\ UNCHANGED <<csvFile, current_page, processed_urls, page, path, execs,
                   mainHist, poolVars, workVars, arg, ckptPrev, intr, got,
                   retryVars, navVars, csvVars, closeVars, endVars, posVars,
                   leadVars>>

NextCkpt ==
    \/ CkOpen
    \/ CkDump
    \/ CkCrash
    \/ CkLoad
    \/ CkRemove

SpecCkpt == InitCkpt /\ [][NextCkpt]_vars

\* =============================================================== SpecRetry
\* One call of a function wrapped by retry(max_attempts, delay, backoff).
InitRetry ==
    /\ pc = "r_call"
    /\ policy \in Policies
    /\ attempt = 0
    /\ current_delay = PolicyDelay(policy)
    /\ calls = 0
    /\ sleeps = <<>>
    /\ raised = 0
    /\ outcomes = <<>>
    /\ log = <<>>
    /\ result = "none"
    /\ DiskInit /\ MainRest /\ PoolRest /\ CkRest /\ NavRest /\ CsvRest /\ CloseRest /\ EndRest /\ PosRest /\ LeadRest

\* try: return func(*args, **kwargs); except Exception: attempt += 1, the
\* log entry, and raise when the attempts are used up.  An exception the
\* except clause does not catch passes through the wrapper.
RetryCall ==
    /\ pc = "r_call"
    /\ calls' = calls + 1
    /\ \E ev \in Events(policy.impl) :
         LET res == FuncResult(ev) IN
         /\ outcomes' = Append(outcomes, ev)
         /\ IF res \in {"ok", "placeholder"}
            THEN /\ pc' = "r_returned"
                 /\ result' = res
                 /\ UNCHANGED <<attempt, raised, log>>
            ELSE IF ~except_Exception(res)
            THEN /\ pc' = "r_interrupted"
                 /\ raised' = calls + 1
                 /\ UNCHANGED <<attempt, log, result>>
            ELSE /\ attempt' = attempt + 1
                 /\ log' = log \o LogFailure(policy.impl, attempt + 1,
                                              policy.max_attempts)
                 /\ IF RetryExhausted(attempt + 1, policy.max_attempts)
                    THEN pc' = "r_raised" /\ raised' = calls + 1
                    ELSE pc' = "r_sleep" /\ UNCHANGED raised
                 /\ UNCHANGED result
    /\ UNCHANGED <<diskVars, current_page, processed_urls, page, path, execs,
                   mainHist, poolVars, workVars, ckVars, policy, current_delay,
                   sleeps, navVars, csvVars, closeVars, endVars, posVars,
                   leadVars>>

\* time.sleep(...), the next delay, and the loop test: while attempt <
\* max_attempts, else return None.
RetrySleep ==
    /\ pc = "r_sleep"
    /\ sleeps' = Append(sleeps, SleepTime(policy, attempt, current_delay))
    /\ current_delay' = NextDelay(policy, current_delay)
    /\ pc' = IF attempt < policy.max_attempts THEN "r_call" ELSE "r_none"
    /\ UNCHANGED <<diskVars, current_page, processed_urls, page, path, execs,
                   mainHist, poolVars, workVars, ckVars, policy, attempt, calls,
                   raised, outcomes, log, result, navVars, csvVars, closeVars,
                   endVars, posVars, leadVars>>

\* process_single_company after its call of get_company_details_optimized:
\* the details are merged into the record, or the inner except clause keeps
\* the record as it was, the record is returned and as_completed collects it.
EnrichReturn ==
    /\ pc \in {"r_returned", "r_raised"}
    /\ policy.impl = "main"
    /\ \E link \in Ids :
         companies_data' =
             Collect(companies_data,
                     TaskResult(link, IF pc = "r_raised" THEN "enrich_raised" ELSE "ok"))
    /\ pc' = "r_collected"
    /\ UNCHANGED <<diskVars, current_page, processed_urls, page, path, execs,
                   mainHist, poolVars, batch, tasks, max_workers, ckVars,
                   retryVars, navVars, csvVars, closeVars, endVars, posVars,
                   leadVars>>

NextRetry ==
    \/ RetryCall
    \/ RetrySleep
    \/ EnrichReturn

SpecRetry == InitRetry /\ [][NextRetry]_vars

\* ================================================================= SpecNav
\* One advance of the page loop, try block by try block: main() has finished
\* a page (on either branch) and calls go_to_next_page; when the call returns
\* False the loop is left and the run ends.
CheckpointFiles ==
    {NoFile, PartialFile}
      \cup {JsonDump(p, urls) : p \in 1..max_pages, urls \in SUBSET Links}

InitNav ==
    /\ pc \in {"advance", "advance_empty"}
    /\ path = IF pc = "advance" THEN "nonempty" ELSE "none"
    /\ current_page \in 1..max_pages
    /\ ckptFile \in CheckpointFiles
    /\ csvFile = [l \in Links |-> 0]
    /\ processed_urls = {}
    /\ page = 0
    /\ execs = 1
    /\ ckptAtStart = NoFile
    /\ dispatched = [l \in Links |-> 0]
    /\ skipped = FALSE
    /\ saves = <<0, 0>>
    /\ exit_cause = "none"
    /\ replayed = <<>>
    /\ PoolRest /\ CkRest /\ RetryRest /\ NavRest /\ CsvRest /\ CloseRest /\ EndRest /\ PosRest /\ LeadRest

\* go_to_next_page(driver, current_page) is entered.
NavCall ==
    /\ pc \in {"advance", "advance_empty"}
    /\ path' = IF pc = "advance" THEN "nonempty" ELSE "empty"
    /\ strategy' = 1
    /\ tried' = <<>>
    /\ nav_result' = "none"
    /\ pc' = "nav_try"
    /\ UNCHANGED <<diskVars, current_page, processed_urls, page, execs, mainHist,
                   poolVars, workVars, ckVars, retryVars, csvVars,
                   closeVars, endVars, posVars, leadVars>>

\* One try block of go_to_next_page.
NavTry ==
    /\ pc = "nav_try"
    /\ \E out \in StepOutcomes :
         LET step == StrategyStep(strategy, out) IN
         /\ tried' = Append(tried, [s |-> Strategies[strategy], out |-> out])
         /\ strategy' = step.next
         /\ nav_result' = step.ret
         /\ pc' = IF step.ret = "none" THEN "nav_try" ELSE "nav_ret"
    /\ UNCHANGED <<diskVars, current_page, processed_urls, page, path, execs,
                   mainHist, poolVars, workVars, ckVars, retryVars, csvVars,
                   closeVars, endVars, posVars, leadVars>>

\* Back in main(): if not go_to_next_page(...): break; else current_page += 1
\* and, on the empty-batch branch, on to save_checkpoint.
NavReturn ==
    /\ pc = "nav_ret"
    /\ IF nav_result = "true"
       THEN /\ current_page' = NextPageNum(current_page)
            /\ pc' = IF path = "nonempty" THEN "loop" ELSE "ckpt_open"
            /\ path' = IF path = "nonempty" THEN "none" ELSE "empty"
            /\ UNCHANGED exit_cause
       ELSE /\ pc' = "finish"
            /\ exit_cause' = "exhausted"
            /\ path' = "none"
            /\ UNCHANGED current_page
    /\ UNCHANGED <<replayed, diskVars, processed_urls, page, execs, ckptAtStart, dispatched,
                   skipped, saves, poolVars, workVars, ckVars, retryVars, navVars,
                   csvVars, closeVars, endVars, posVars, leadVars>>

NextNav ==
    \/ NavCall
    \/ NavTry
    \/ NavReturn
    \/ Finish

SpecNav == InitNav /\ [][NextNav]_vars

\* ================================================================= SpecCsv
\* save_to_csv on one output file, call after call, step by step; any step
\* that touches the file can fail, and the error is logged and swallowed.
InitCsv ==
    /\ pc = "csv_idle"
    /\ DiskInit /\ MainRest /\ PoolRest /\ CkRest /\ RetryRest /\ NavRest /\ CsvRest
    /\ CloseRest /\ EndRest /\ PosRest /\ LeadRest

\* save_to_csv(data, file_path) up to the open: nothing happens for an empty
\* list; else file_exists = os.path.isfile(file_path).
CsvCall ==
    /\ pc = "csv_idle"
    /\ \E data \in SeqsUpTo(Companies, MaxRows) :
         /\ Len(csvText.lines) + Len(data) + (IF csvText.exists THEN 0 ELSE 1)
               <= MaxCsvLines
         /\ csvData' = data
         /\ IF data = <<>>
            THEN UNCHANGED <<pc, file_exists>>
            ELSE pc' = "csv_open" /\ file_exists' = csvText.exists
    /\ UNCHANGED <<diskVars, current_page, processed_urls, page, path, execs,
                   mainHist, poolVars, workVars, ckVars, retryVars, navVars,
                   csvText, closeVars, endVars, posVars, leadVars>>

CsvFailed ==
    /\ pc' = "csv_idle"
    /\ csvData' = <<>>
    /\ UNCHANGED csvText

\* with open(file_path, 'a', ...) as csvfile
CsvOpen ==
    /\ pc = "csv_open"
    /\ \E ok \in BOOLEAN :
         IF ok
         THEN /\ csvText' = OpenAppend(csvText)
              /\ pc' = IF file_exists THEN "csv_rows" ELSE "csv_header"
              /\ UNCHANGED csvData
         ELSE CsvFailed
    /\ UNCHANGED <<diskVars, current_page, processed_urls, page, path, execs,
                   mainHist, poolVars, workVars, ckVars, retryVars, navVars,
                   file_exists, closeVars, endVars, posVars, leadVars>>

\* if not file_exists: writer.writeheader()
CsvHeader ==
    /\ pc = "csv_header"
    /\ \E ok \in BOOLEAN :
         IF ok
         THEN /\ csvText' = WriteLine(csvText, Header)
              /\ pc' = "csv_rows"
              /\ UNCHANGED csvData
         ELSE CsvFailed
    /\ UNCHANGED <<diskVars, current_page, processed_urls, page, path, execs,
                   mainHist, poolVars, workVars, ckVars, retryVars, navVars,
                   file_exists, closeVars, endVars, posVars, leadVars>>

\* writer.writerows(data), one row at a time, and the close of the file.
CsvRow ==
    /\ pc = "csv_rows"
    /\ IF csvData = <<>>
       THEN pc' = "csv_idle" /\ UNCHANGED <<csvText, csvData>>
       ELSE \E ok \in BOOLEAN :
              IF ok
              THEN /\ csvText' = WriteLine(csvText, DictRow(Normalise(Head(csvData))))
                   /\ csvData' = Tail(csvData)
                   /\ UNCHANGED pc
              ELSE CsvFailed
    /\ UNCHANGED <<diskVars, current_page, processed_urls, page, path, execs,
                   mainHist, poolVars, workVars, ckVars, retryVars, navVars,
                   file_exists, closeVars, endVars, posVars, leadVars>>

NextCsv ==
    \/ CsvCall
    \/ CsvOpen
    \/ CsvHeader
    \/ CsvRow

SpecCsv == InitCsv /\ [][NextCsv]_vars

\* =============================================================== SpecClose
\* One close_all call on a pool in any of its states: each session on the
\* queue or checked out.  main() calls close_all after the executor is shut
\* down, so no task runs beside it and a session that is checked out stays so.
InitClose ==
    /\ pc = "close_idle"
    /\ \E n \in 0..MaxPool :
         /\ drivers = NewPoolDrivers(n)
         /\ available \in PoolQueues(drivers)
    /\ batch = <<>>
    /\ tasks = <<>>
    /\ companies_data = <<>>
    /\ max_workers = MAX_WORKERS
    /\ DiskInit /\ MainRest /\ CkRest /\ RetryRest /\ NavRest /\ CsvRest
    /\ CloseRest /\ EndRest /\ PosRest /\ LeadRest

\* close_all() is entered.
CloseCall ==
    /\ pc = "close_idle"
    /\ pc' = "close_drain"
    /\ UNCHANGED <<diskVars, current_page, processed_urls, page, path, execs,
                   mainHist, poolVars, workVars, ckVars, retryVars, navVars,
                   csvVars, closeVars, endVars, posVars, leadVars>>

\* One driver.quit() call of close_all on session d.
Quit(d, next) ==
    \E out \in QuitOutcomes :
        /\ quits' = Append(quits, d)
        /\ quit_errors' = IF out = "raised" THEN quit_errors \cup {Len(quits) + 1}
                          ELSE quit_errors
        /\ pc' = IF QuitGuarded(out) = "continue" THEN next ELSE "close_raised"

\* while not self.available.empty(): driver = self.available.get(), quit it;
\* after the loop the for loop over self.drivers starts.
CloseDrain ==
    /\ pc = "close_drain"
    /\ IF available = <<>>
       THEN /\ pc' = "close_loop"
            /\ todo' = DriverList(drivers)
            /\ UNCHANGED <<available, quits, quit_errors>>
       ELSE LET g == QueueGet(available) IN
            /\ available' = g.rest
            /\ Quit(g.item, "close_drain")
            /\ UNCHANGED todo
    /\ UNCHANGED <<diskVars, current_page, processed_urls, page, path, execs,
                   mainHist, drivers, workVars, ckVars, retryVars, navVars,
                   csvVars, endVars, posVars, leadVars>>

\* for driver in self.drivers: quit it; close_all returns after the last.
CloseLoop ==
    /\ pc = "close_loop"
    /\ IF todo = <<>>
       THEN /\ pc' = "close_returned"
            /\ UNCHANGED <<quits, quit_errors, todo>>
       ELSE /\ Quit(Head(todo), "close_loop")
            /\ todo' = Tail(todo)
    /\ UNCHANGED <<diskVars, current_page, processed_urls, page, path, execs,
                   mainHist, poolVars, workVars, ckVars, retryVars, navVars,
                   csvVars, endVars, posVars, leadVars>>

NextClose ==
    \/ CloseCall
    \/ CloseDrain
    \/ CloseLoop

SpecClose == InitClose /\ [][NextClose]_vars

\* ============================================================== properties
Busy == {t \in DOMAIN tasks : tasks[t].gets > tasks[t].rets}

Holding(t) == tasks[t].pc = "body"

\* C1: at every instant the number of sessions checked out of the pool
\* (obtained by get_driver and not yet given back) is at most the number of
\* sessions the pool was constructed with.
C1_PoolBound == Cardinality(Busy) <= Cardinality(drivers)

\* Every session is out and a further worker waits in get_driver.
C1_Witness ==
    /\ pc = "batch"
    /\ drivers # {}
    /\ Cardinality(Busy) = Cardinality(drivers)
    /\ \E t \in DOMAIN tasks : tasks[t].pc = "get"

\* C2: no session is held by two tasks at the same time: while a task holds
\* session s, no other task holds s and s is not on the queue for another
\* get_driver to return.
C2_ExclusiveSession ==
    /\ \A t, u \in DOMAIN tasks :
         (t # u /\ Holding(t) /\ Holding(u)) => tasks[t].driver # tasks[u].driver
    /\ \A t \in DOMAIN tasks :
         Holding(t) => tasks[t].driver \notin Range(available)

\* Two tasks hold sessions at once, the first task the second session.
C2_Witness ==
    /\ pc = "batch"
    /\ \E t, u \in DOMAIN tasks : t # u /\ Holding(t) /\ Holding(u)
    /\ tasks[1].driver = 2

\* C3: a task that ended did one get_driver and exactly one return_driver,
\* whatever the outcome of its body, and when the batch has returned every
\* session of the pool is on the queue again, once.
C3_GuaranteedRelease ==
    /\ \A t \in DOMAIN tasks :
         tasks[t].pc = "done" => (tasks[t].gets = 1 /\ tasks[t].rets = 1)
    /\ pc = "pool_returned" =>
         /\ Range(available) = drivers
         /\ Len(available) = Cardinality(drivers)

\* A batch returned in which the body of one task failed (its result is
\* missing) and another task handed back a record.
C3_Witness ==
    /\ pc = "pool_returned"
    /\ drivers # {}
    /\ companies_data # <<>>
    /\ Len(companies_data) < Len(batch)

\* C4: no identity has more than one row in the output file, over an
\* execution and every execution resumed after it.
C4_NoDuplicateRows == \A l \in Ids : csvFile[l] <= 1

\* C5: an execution that started with a saved checkpoint hands no item to the
\* batch processor whose identity is in that checkpoint's set.
C5_NoRedispatch ==
    ckptAtStart.st = "valid" =>
        \A l \in Range(ckptAtStart.processed_urls) : dispatched[l] = 0

\* A resumed execution met a known item on a page and dispatched the rest.
C5_Witness ==
    /\ ckptAtStart.st = "valid"
    /\ Range(ckptAtStart.processed_urls) # {}
    /\ pc = "batch"
    /\ skipped
    /\ \E l \in Links : dispatched[l] = 1

\* C6: within one run no identity is dispatched twice, and every item of the
\* batch was admitted to the seen-set before the batch is handed over.
C6_DispatchOnce ==
    /\ \A l \in Links : dispatched[l] <= 1
    /\ pc = "batch" => Range(batch) \subseteq processed_urls

\* A batch is handed over from a page on which an item was left out.
C6_Witness ==
    /\ pc = "batch"
    /\ skipped
    /\ \E l \in Ids : dispatched[l] = 1 /\ l \notin Range(batch)

RetryFailed == pc \in {"r_raised", "r_none"}

ExpectedWait(pol, i) ==
    Frac(pol.delay * Pow(pol.backoff, i - 1), 10 * Pow(2, i - 1))

\* C7: an operation that fails on every attempt under a policy (m, d, b) is
\* invoked exactly m times, the wait after attempt i < m is d * b^(i-1), there
\* is no wait after attempt m, and the failure of attempt m is raised.
C7_RetrySequence ==
    RetryFailed =>
        /\ pc = "r_raised"
        /\ calls = policy.max_attempts
        /\ raised = policy.max_attempts
        /\ Len(sleeps) = policy.max_attempts - 1
        /\ \A i \in DOMAIN sleeps : FracEq(sleeps[i], ExpectedWait(policy, i))

\* Three failed attempts with two waits between them.
C7_Witness ==
    /\ pc = "r_raised"
    /\ policy.max_attempts = 3
    /\ calls = 3
    /\ Len(sleeps) = 2

\* C8: within one run the page index of a save_checkpoint call is never less
\* than the index of the call before it.
C8_CheckpointMonotone == saves[1] <= saves[2]

\* A second save in a run, on the empty-batch path.
C8_Witness ==
    /\ saves[1] >= 1
    /\ path = "empty"
    /\ pc = "ckpt_dump"

\* C9: after a crash during save_checkpoint over a valid checkpoint,
\* load_checkpoint returns the complete previous checkpoint or the complete
\* new one.
C9_CrashKeepsCheckpoint ==
    (pc = "ck_loaded" /\ intr.during /\ intr.prev.st = "valid") =>
        got \in {load_checkpoint(intr.prev), load_checkpoint(intr.new)}

\* C10: load_checkpoint returns the page and the set of the most recent
\* successful save_checkpoint, and the zero value when there is no file.
C10_LoadReturnsLastSave ==
    pc = "ck_loaded" =>
        got = IF ckptFile.st = "absent" \/ ~lastGood.some
              THEN ZeroCheckpoint
              ELSE [last_page |-> lastGood.last_page,
                    processed_urls |-> lastGood.processed_urls]

\* C11: the checkpoint file is removed only by an execution that left the
\* page loop because the last advance found no working strategy; leaving it
\* at the page bound, on a page without listing elements or through a fatal
\* error keeps the file.
C11_RemovedOnlyWhenExhausted ==
    [][(ckptFile.st # "absent" /\ ckptFile'.st = "absent")
          => exit_cause = "exhausted"]_vars

\* C12: in one go_to_next_page call the strategies are tried in the order
\* numbered page link, next arrow, load more, and a strategy that succeeds is
\* the last one tried: the call returns True at once.
C12_StrategyOrder ==
    /\ Len(tried) <= Len(Strategies)
    /\ \A i \in DOMAIN tried :
         /\ tried[i].s = Strategies[i]
         /\ tried[i].out = "ok" =>
              (i = Len(tried) /\ nav_result = "true" /\ strategy = 0)

\* The next arrow worked after the page link timed out; load more was not tried.
C12_Witness ==
    /\ pc = "nav_ret"
    /\ Len(tried) = 2
    /\ tried[1].out # "ok"
    /\ tried[2].out = "ok"
    /\ nav_result = "true"

AllTimedOut ==
    /\ Len(tried) = Len(Strategies)
    /\ \A i \in DOMAIN tried : tried[i].out # "ok"

\* C13: when all three strategies time out, go_to_next_page returns False,
\* main() leaves the loop without a failure and ends with the checkpoint file
\* removed.
C13_ExhaustionEndsRun ==
    AllTimedOut =>
        /\ nav_result = "false"
        /\ pc \in {"nav_ret", "finish", "done"}
        /\ pc = "finish" => exit_cause = "exhausted"
        /\ pc = "done" => ckptFile.st = "absent"

\* The run ended after three timeouts and the checkpoint file is gone.
C13_Witness ==
    /\ AllTimedOut
    /\ \A i \in DOMAIN tried : tried[i].out = "timeout"
    /\ pc = "done"
    /\ ckptFile.st = "absent"

Count(seq, x) == Cardinality({i \in DOMAIN seq : seq[i] = x})

Collected(t) == tasks[t].pc = "done" /\ tasks[t].outcome # "body_raised"

\* C14: an enrichment that raised does not take anything away from the
\* batch: at every instant the results collected are the records of all the
\* tasks that ended without a failure of their body, the item whose
\* enrichment raised included, and no worker waits for a session while none
\* is held and none is free.
C14_FailureIsolated ==
    pc = "batch" =>
        /\ \A l \in Links :
             Count(companies_data, l) =
                 Cardinality({t \in DOMAIN tasks : Collected(t) /\ batch[t] = l})
        /\ (drivers # {} /\ \E t \in DOMAIN tasks : tasks[t].pc = "get") =>
               (available # <<>> \/ \E u \in DOMAIN tasks : Holding(u))

\* One enrichment raised and a sibling that ended normally was collected.
C14_Witness ==
    /\ pc = "batch"
    /\ \E t, u \in DOMAIN tasks :
         /\ tasks[t].outcome = "enrich_raised"
         /\ tasks[u].outcome = "ok"
    /\ Len(companies_data) = 2

AllDone == pc = "batch" /\ \A t \in DOMAIN tasks : tasks[t].pc = "done"

NoBodyFailed == \A t \in DOMAIN tasks : tasks[t].outcome # "body_raised"

C20_ReducedCapacity ==
    /\ [](pc \in {"pool_idle", "pool_returned"} => Range(available) = drivers)
    /\ (pc = "batch") ~> (pc = "pool_returned")

\* C16: for a page with a non-empty batch, all its rows are in the output
\* file once save_to_csv is over, the append comes before save_checkpoint, and
\* the checkpoint of that page is on disk when the loop moves on to the next
\* page.
C16_DurableBeforeNextPage ==
    [][/\ (pc = "csv" /\ pc' # "killed") =>
              csvFile' = AppendRows(csvFile, companies_data)
       /\ (pc' = "ckpt_open" /\ path' = "nonempty") => pc = "csv"
       /\ (pc = "advance" /\ pc' = "loop") =>
              ckptFile = JsonDump(current_page, processed_urls)]_vars

\* C17: between save_to_csv calls an output file that holds anything has
\* the schema header as its first line and nowhere else.
C17_HeaderOnce ==
    (pc = "csv_idle" /\ csvText.lines # <<>>) =>
        /\ csvText.lines[1] = Header
        /\ Count(csvText.lines, Header) = 1

LastLine(f) == f.lines[Len(f.lines)]

C19_AppendOnly ==
    [][/\ csvText.exists => csvText'.exists
       /\ Len(csvText'.lines) >= Len(csvText.lines)
       /\ SubSeq(csvText'.lines, 1, Len(csvText.lines)) = csvText.lines]_vars

\* A second call appended a row below the header and the row of the first.
C19_Witness ==
    /\ pc = "csv_idle"
    /\ Len(csvText.lines) = 3
    /\ csvText.lines[1] = Header
    /\ csvText.lines[2] # csvText.lines[3]

\* C21: close_all never ends in an error, and when it has returned
\* driver.quit() was called on every session of the pool, those checked out
\* included, whichever of the calls raised.
C21_CloseAllBestEffort ==
    /\ pc # "close_raised"
    /\ pc = "close_returned" => \A d \in drivers : Count(quits, d) >= 1

\* close_all returned on a pool of two sessions, one of them checked out;
\* the first quit raised and the other session was quit after it.
C21_Witness ==
    /\ pc = "close_returned"
    /\ Cardinality(drivers) = 2
    /\ 1 \in quit_errors
    /\ \E d \in drivers : Count(quits, d) = 1
    /\ \E i \in DOMAIN quits : i > 1 /\ quits[i] # quits[1] /\ i \notin quit_errors

\* The kinds of failure the retry executor is meant for: timeouts and stale
\* element handles.
Recoverable(kind) == kind = "transient"

\* Invocation i of the wrapped function raised into the wrapper.
Raised(i) == FuncResult(outcomes[i]) \in FailureKinds

\* C22: an invocation that raises a failure outside the recoverable kinds is
\* the last one of the call: the failure reaches the caller at that attempt
\* and no delay follows it.
C22_OnlyRecoverableRetried ==
    \A i \in DOMAIN outcomes :
        (Raised(i) /\ ~Recoverable(FuncResult(outcomes[i]))) =>
            /\ i = Len(outcomes)
            /\ Len(sleeps) < i
            /\ raised = i

\* C23: when the wrapped enrichment raises on its first j invocations and
\* returns the details on the next, it was invoked j + 1 times with
\* j < max_attempts, the wrapper logged j warnings and returned the details,
\* and the item is collected once.
C23_RetryThenSuccess ==
    (outcomes # <<>> /\ outcomes[Len(outcomes)].kind = "ok") =>
        LET j == Len(outcomes) - 1 IN
        /\ \A i \in 1..j : Raised(i)
        /\ j < policy.max_attempts
        /\ calls = j + 1
        /\ Count(log, "warning") = j
        /\ Count(log, "error") = 0
        /\ pc \in {"r_returned", "r_collected"}
        /\ result = "ok"
        /\ pc = "r_collected" =>
              (Len(companies_data) = 1 /\ companies_data[1] \in Ids)

\* Two failed attempts, the third returned the details and the item was
\* collected.
C23_Witness ==
    /\ pc = "r_collected"
    /\ policy.max_attempts = 3
    /\ calls = 3
    /\ Len(sleeps) = 2
    /\ log = <<"warning", "warning">>
    /\ result = "ok"
    /\ Len(companies_data) = 1

\* Invocation i ran into the timeout of the wait for the detail page.
WaitTimedOut(i) == outcomes[i] = [where |-> "guarded", kind |-> "transient"]

\* C29: an invocation of the enrichment whose wait for the detail page
\* timed out is followed by another invocation, as long as attempts are left.
C29_EnrichTimeoutRetried ==
    \A i \in DOMAIN outcomes :
        (WaitTimedOut(i) /\ i < policy.max_attempts) =>
            (Len(outcomes) > i \/ pc \in {"r_sleep", "r_call"})

\* C24: a save_to_csv that did not write all its rows, or a save_checkpoint
\* that did not write its record, ends the run in Failed with the checkpoint
\* file as it was before the call; the loop does not go on.
C24_WriteFailureFatal ==
    [][/\ (pc = "csv" /\ pc' # "killed"
             /\ csvFile' # AppendRows(csvFile, companies_data)) => pc' = "failed"
       /\ (pc = "ckpt_open" /\ pc' \notin {"killed", "ckpt_dump"}) =>
              (pc' = "failed" /\ ckptFile' = ckptFile)
       /\ (pc = "ckpt_dump" /\ pc' # "killed"
             /\ ckptFile' # JsonDump(current_page, processed_urls)) =>
              pc' = "failed"]_vars

ReplayDone == pc = "loop" /\ replayed # <<>>

Successes(seq) == Cardinality({i \in DOMAIN seq : seq[i]})

NothingDispatched ==
    /\ batch = <<>>
    /\ companies_data = <<>>
    /\ \A l \in Links : dispatched[l] = 0

\* C25: a resume replay from page index p > 0 in which every advance
\* succeeded made exactly p go_to_next_page calls before the page loop, and
\* nothing is extracted or dispatched while the replay runs.
C25_ReplayCount ==
    /\ (ReplayDone /\ Successes(replayed) = Len(replayed)) =>
           Len(replayed) = ckptAtStart.last_page
    /\ (pc = "replay" \/ ReplayDone) =>
           (ckptAtStart.last_page > 0 /\ NothingDispatched)

\* A replay of two successful advances is over, the first extraction is next.
C25_Witness ==
    /\ ReplayDone
    /\ replayed = <<TRUE, TRUE>>
    /\ ckptAtStart.last_page = 2
    /\ current_page = 2

\* C26: after a replay that an advance cut short the run goes on with the
\* page loop, and the page position it starts from is not beyond the page
\* the replay reached.
C26_ReplayBrokenPosition ==
    (ReplayDone /\ Successes(replayed) < Len(replayed)) =>
        current_page <= Successes(replayed) + 1

\* C27: when main() ended in its except clause the checkpoint file is as it
\* was when the error occurred and driver.quit() was called on every session
\* the pool constructed.
C27_FatalKeepsCheckpoint ==
    pc = "failed" =>
        /\ ckptFile = ckptAtError
        /\ \A d \in created : Count(quits, d) >= 1

\* The first execution failed in the page loop with a checkpoint of an
\* earlier page on disk and a session in the pool.
C27_Witness ==
    /\ pc = "failed"
    /\ execs = 1
    /\ ckptFile.st = "valid"
    /\ ckptFile.last_page >= 1
    /\ created # {}
    /\ quits # <<>>

\* C28: an execution that ended in Failed did not return normally to the
\* caller of main().
C28_ErrorSurfaced == pc = "failed" => exit_status = "raised"

\* The items handed to the executor whose task has not ended.
Pending == {t \in DOMAIN tasks : tasks[t].pc # "done"}

\* C30: on a pool that holds a session, the items dispatched and not yet
\* completed are never more than the sessions of the pool.
C30_DispatchBounded ==
    (pc = "batch" /\ drivers # {}) => Cardinality(Pending) <= Cardinality(drivers)

\* C31: process_company_batch_parallel returns to the coordinating thread
\* only when every task of the batch has ended, none of them running or
\* waiting, and no task is ever handed the navigation session.
C31_NoTaskBesideMainThread ==
    [][/\ (pc = "batch" /\ pc' # "batch") =>
              \A t \in DOMAIN tasks :
                  tasks[t].pc = "done" /\ tasks[t].gets = tasks[t].rets
       /\ \A t \in DOMAIN tasks' : tasks'[t].driver # NavDriver \/ tasks'[t].gets = 0
       /\ NavDriver \notin drivers']_vars

\* A batch of two items that ran on two sessions has been returned.
C31_Witness ==
    /\ pc = "pool_returned"
    /\ Cardinality(drivers) = 2
    /\ max_workers = 2
    /\ Len(batch) = 2
    /\ Len(companies_data) = 2

\* The try blocks of the call so far in which the control was clicked.
Clicked == {i \in DOMAIN tried : tried[i].out \in {"settle_timeout", "ok"}}

\* C32: one go_to_next_page call clicks at most one page-advancing control,
\* so a call that returns True has moved the listing by exactly one page.
C32_OneClickPerCall ==
    /\ Cardinality(Clicked) <= 1
    /\ nav_result = "true" => Cardinality(Clicked) = 1

\* ============================================================== SpecResume
\* main() as far as the page position goes: the checkpoint, the replay, the
\* page counter and the listing page the navigation session shows, over
\* executions that are killed and run again.  Every go_to_next_page that
\* returns True is taken to have moved the listing one page forward; the
\* enrichment of a batch and its output rows move neither and are left out.
\* Re-runs of main() after the first execution.
MaxResumes == 2

InitResume ==
    /\ pc = "start"
    /\ DiskInit /\ MainRest /\ PoolRest /\ CkRest /\ RetryRest /\ NavRest /\ CsvRest
    /\ CloseRest /\ EndRest /\ PosRest /\ LeadRest

\* load_checkpoint, the search (the first listing page is shown) and the
\* resume test.
ResStart ==
    /\ pc = "start"
    /\ LET checkpoint == load_checkpoint(ckptFile) IN
       /\ ckptAtStart' = ckptFile
       /\ processed_urls' = checkpoint.processed_urls
       /\ shown' = 1
       /\ IF checkpoint.last_page > 0
          THEN /\ current_page' = checkpoint.last_page
               /\ page' = 1
               /\ pc' = "replay"
          ELSE /\ current_page' = Max(1, checkpoint.last_page)
               /\ page' = 0
               /\ pc' = "loop"
    /\ UNCHANGED <<diskVars, path, execs, dispatched, skipped, saves, exit_cause,
                   replayed, extracted, poolVars, workVars, ckVars, retryVars,
                   navVars, csvVars, closeVars, endVars, leadVars>>

\* One iteration of for page in range(1, current_page + 1):
\* go_to_next_page(driver, page), break when it fails; after the loop
\* current_page = max(1, current_page).
ResReplay ==
    /\ pc = "replay"
    /\ \E moved \in NavResults :
         /\ replayed' = Append(replayed, moved)
         /\ shown' = IF moved THEN shown + 1 ELSE shown
         /\ IF moved /\ ReplayMore(page, current_page)
            THEN /\ page' = page + 1
                 /\ UNCHANGED <<pc, current_page>>
            ELSE /\ page' = 0
                 /\ current_page' = Max(1, current_page)
                 /\ pc' = "loop"
    /\ UNCHANGED <<diskVars, processed_urls, path, execs, ckptAtStart, dispatched,
                   skipped, saves, exit_cause, extracted, poolVars, workVars,
                   ckVars, retryVars, navVars, csvVars, closeVars, endVars,
                   leadVars>>

\* while current_page <= max_pages fails, or find_elements finds nothing:
\* the loop is left.
ResLoopExit ==
    /\ pc = "loop"
    /\ \E found \in BOOLEAN :
         /\ found => ~(current_page <= max_pages)
         /\ exit_cause' = IF found THEN "max_pages" ELSE "no_elements"
    /\ pc' = "finish"
    /\ UNCHANGED <<diskVars, current_page, processed_urls, page, path, execs,
                   ckptAtStart, dispatched, skipped, saves, replayed, posVars,
                   poolVars, workVars, ckVars, retryVars, navVars, csvVars,
                   closeVars, endVars, leadVars>>

\* The extraction loop over the page shown; with a batch that is not empty,
\* process_company_batch_parallel and save_to_csv follow.
ResExtract ==
    /\ pc = "loop"
    /\ current_page <= max_pages
    /\ \E elems \in SeqsUpTo(Links, MaxPageItems) :
         LET f == FilterPage(elems, processed_urls, <<>>, FALSE) IN
         /\ elems # <<>>
         /\ processed_urls' = f.seen
         /\ path' = IF f.batch = <<>> THEN "empty" ELSE "nonempty"
         /\ pc' = IF f.batch = <<>> THEN "advance_empty" ELSE "ckpt_open"
    /\ extracted' = extracted \cup {shown}
    /\ UNCHANGED <<diskVars, current_page, page, execs, ckptAtStart, dispatched,
                   skipped, saves, exit_cause, replayed, shown, poolVars,
                   workVars, ckVars, retryVars, navVars, csvVars, closeVars,
                   endVars, leadVars>>

\* save_checkpoint(current_page, processed_urls); a failure is logged and
\* swallowed and leaves the file as far as it got.
ResSaveCheckpoint ==
    /\ pc = "ckpt_open"
    /\ \E file \in {ckptFile, OpenForWrite(ckptFile),
                    JsonDump(current_page, processed_urls)} :
         ckptFile' = file
    /\ pc' = AfterSave
    /\ UNCHANGED <<csvFile, current_page, processed_urls, page, path, execs,
                   mainHist, posVars, poolVars, workVars, ckVars, retryVars,
                   navVars, csvVars, closeVars, endVars, leadVars>>

\* Non-empty batch: go_to_next_page after the checkpoint, current_page += 1.
ResAdvance ==
    /\ pc = "advance"
    /\ \E moved \in NavResults :
         IF moved
         THEN /\ current_page' = NextPageNum(current_page)
              /\ shown' = shown + 1
              /\ pc' = "loop"
              /\ UNCHANGED exit_cause
         ELSE /\ pc' = "finish"
              /\ exit_cause' = "exhausted"
              /\ UNCHANGED <<current_page, shown>>
    /\ path' = "none"
    /\ UNCHANGED <<diskVars, processed_urls, page, execs, ckptAtStart, dispatched,
                   skipped, saves, replayed, extracted, poolVars, workVars,
                   ckVars, retryVars, navVars, csvVars, closeVars, endVars,
                   leadVars>>

\* Empty batch: go_to_next_page, current_page += 1, then the checkpoint.
ResAdvanceEmpty ==
    /\ pc = "advance_empty"
    /\ \E moved \in NavResults :
         IF moved
         THEN /\ current_page' = NextPageNum(current_page)
              /\ shown' = shown + 1
              /\ pc' = "ckpt_open"
              /\ UNCHANGED <<exit_cause, path>>
         ELSE /\ pc' = "finish"
              /\ exit_cause' = "exhausted"
              /\ path' = "none"
              /\ UNCHANGED <<current_page, shown>>
    /\ UNCHANGED <<diskVars, processed_urls, page, execs, ckptAtStart, dispatched,
                   skipped, saves, replayed, extracted, poolVars, workVars,
                   ckVars, retryVars, navVars, csvVars, closeVars, endVars,
                   leadVars>>

\* What an execution that ended leaves of its memory: nothing.
ResVolatileLost ==
    /\ current_page' = 0
    /\ processed_urls' = {}
    /\ page' = 0
    /\ path' = "none"
    /\ ckptAtStart' = NoFile
    /\ exit_cause' = "none"
    /\ replayed' = <<>>
    /\ shown' = 0

\* After the loop the checkpoint file is removed and main() returns.
ResFinish ==
    /\ pc = "finish"
    /\ pc' = "done"
    /\ ckptFile' = RemoveCheckpoint(ckptFile)
    /\ ResVolatileLost
    /\ UNCHANGED <<csvFile, execs, dispatched, skipped, saves, extracted,
                   poolVars, workVars, ckVars, retryVars, navVars, csvVars,
                   closeVars, endVars, leadVars>>

\* The process is killed anywhere after load_checkpoint: the files stay.
ResKill ==
    /\ pc \in {"replay", "loop", "ckpt_open", "advance", "advance_empty", "finish"}
    /\ pc' = "killed"
    /\ ResVolatileLost
    /\ UNCHANGED <<diskVars, execs, dispatched, skipped, saves, extracted,
                   poolVars, workVars, ckVars, retryVars, navVars, csvVars,
                   closeVars, endVars, leadVars>>

\* main() is run again after an execution that was killed.
ResRestart ==
    /\ pc = "killed"
    /\ execs <= MaxResumes
    /\ pc' = "start"
    /\ execs' = execs + 1
    /\ UNCHANGED <<diskVars, current_page, processed_urls, page, path, mainHist,
                   posVars, poolVars, workVars, ckVars, retryVars, navVars,
                   csvVars, closeVars, endVars, leadVars>>

NextResume ==
    \/ ResStart
    \/ ResReplay
    \/ ResLoopExit
    \/ ResExtract
    \/ ResSaveCheckpoint
    \/ ResAdvance
    \/ ResAdvanceEmpty
    \/ ResFinish
    \/ ResKill
    \/ ResRestart

SpecResume == InitResume /\ [][NextResume]_vars

\* The replay of this execution, if there was one, made every advance.
ReplayComplete == Successes(replayed) = Len(replayed)

\* C33: when the page loop is about to extract a page, in a fresh execution
\* or in one whose replay made every advance, current_page is the index of
\* the listing page shown.
C33_CounterIsPageShown ==
    (pc = "loop" /\ current_page <= max_pages /\ ReplayComplete) =>
        current_page = shown

\* C34: when the page loop is about to extract a page, every listing page
\* before the one shown has been extracted, in this execution or in one
\* before it: no resume passes over a page that was not extracted.
C34_ResumeSkipsNoPage ==
    (pc = "loop" /\ current_page <= max_pages) =>
        \A q \in 1..(shown - 1) : q \in extracted

\* C35: every identity listed in the checkpoint file has a row in the output
\* file.
C35_CheckpointedHasRow ==
    ckptFile.st = "valid" =>
        \A l \in Range(ckptFile.processed_urls) : csvFile[l] >= 1

Waiting(t) == t \in DOMAIN tasks /\ tasks[t].pc = "get"

\* C36: on any pool the constructor can produce, the one without a session
\* included, every batch call returns and no worker stays in get_driver for
\* ever.
C36_BatchTerminates ==
    /\ (pc = "batch") ~> (pc = "pool_returned")
    /\ \A t \in 1..MaxBatch : Waiting(t) ~> ~Waiting(t)

Held == {tasks[t].driver : t \in {u \in DOMAIN tasks : Holding(u)}}

\* C37: between the construction of the pool and close_all the sessions on
\* the free queue and the sessions held by running tasks partition the
\* constructed sessions: none is queued twice, none is both queued and held,
\* and the two counts add up to the number of sessions constructed.
C37_PoolPartition ==
    /\ Len(available) + Cardinality({t \in DOMAIN tasks : Holding(t)})
         = Cardinality(drivers)
    /\ Range(available) \cup Held = drivers
    /\ Range(available) \cap Held = {}
    /\ \A i, j \in DOMAIN available : i # j => available[i] # available[j]

\* One session is held by a task and the other is on the queue, after a
\* first task has given its session back.
C37_Witness ==
    /\ pc = "batch"
    /\ Cardinality(drivers) = 2
    /\ Len(available) = 1
    /\ Cardinality(Held) = 1
    /\ \E t \in DOMAIN tasks : tasks[t].pc = "done"

\* ================================================================ SpecLead
\* main() of the standalone lead parser (src/src/main.py): the collection
\* phase over the include_keywords of the segment, then the detail loop.
\* args.limit (500 by default), the number of include_keywords of the
\* segment, the distinct links the site may show, and the elements one
\* find_elements call returns.
MaxLimit == 2
MaxKeywords == 2
MaxLeadLinks == 3
MaxElems == 2

\* An element of the result list whose name or link is empty, or that went
\* stale or raised while it was read: the loop goes on to the next element.
NoLink == 0

LeadLinks == 1..MaxLeadLinks

\* The element loop appending whatever has a link, seen before or not.
RECURSIVE CollectNoDedup(_, _, _)
CollectNoDedup(elems, results, lim) ==
    IF elems = <<>> \/ Len(results) >= lim THEN results
    ELSE IF Head(elems) = NoLink
    THEN CollectNoDedup(Tail(elems), results, lim)
    ELSE CollectNoDedup(Tail(elems), Append(results, Head(elems)), lim)

\* for elem in company_elements: break at the limit; skip an element without
\* name or link and one whose link is already in all_results; append the
\* others.
RECURSIVE CollectElements(_, _, _)
CollectElements(elems, results, lim) ==
    IF elems = <<>> \/ Len(results) >= lim THEN results
    ELSE IF Head(elems) = NoLink \/ Head(elems) \in Range(results)
    THEN CollectElements(Tail(elems), results, lim)
    ELSE CollectElements(Tail(elems), Append(results, Head(elems)), lim)

\* What the name extract_company_details is bound to: `@retry` without
\* parentheses calls retry(func), which binds max_attempts to the function
\* and returns the inner function decorator(func).
extract_company_details == "decorator"

\* Calling that name with nargs positional arguments.  decorator takes one
\* (func) and returns the wrapper without running anything; any other number
\* of arguments is a TypeError raised before decorator is entered.  A name
\* bound to the wrapper would run the body.
CallResult(callee, nargs) ==
    IF callee = "decorator"
    THEN IF nargs = 1 THEN "wrapper_returned" ELSE "TypeError"
    ELSE "body_run"

InitLead ==
    /\ pc = "lead_keyword"
    /\ limit \in 0..MaxLimit
    /\ keyword = 1
    /\ all_results = <<>>
    /\ idx = 0
    /\ body_runs = 0
    /\ detail_errors = 0
    /\ DiskInit /\ MainRest /\ PoolRest /\ CkRest /\ RetryRest /\ NavRest /\ CsvRest
    /\ CloseRest /\ EndRest /\ PosRest

\* for keyword in include_keywords: break at the limit; the search, and
\* continue with the next keyword when it times out.  After the last keyword
\* (or the break) the detail loop starts.
LeadKeyword ==
    /\ pc = "lead_keyword"
    /\ IF keyword > MaxKeywords \/ Len(all_results) >= limit
       THEN /\ pc' = "lead_detail"
            /\ idx' = 1
            /\ UNCHANGED keyword
       ELSE \E found \in BOOLEAN :
              /\ pc' = IF found THEN "lead_scroll" ELSE "lead_keyword"
              /\ keyword' = IF found THEN keyword ELSE keyword + 1
              /\ UNCHANGED idx
    /\ UNCHANGED <<diskVars, current_page, processed_urls, page, path, execs,
                   mainHist, poolVars, workVars, ckVars, retryVars, navVars,
                   csvVars, closeVars, endVars, posVars, limit, all_results,
                   body_runs, detail_errors>>

\* One iteration of while len(all_results) < args.limit: find_elements, the
\* element loop, the scroll; the loop ends at the limit or when the page did
\* not grow, and the next keyword follows.
LeadScroll ==
    /\ pc = "lead_scroll"
    /\ IF Len(all_results) < limit
       THEN \E elems \in SeqsUpTo(LeadLinks \cup {NoLink}, MaxElems), grew \in BOOLEAN :
              /\ all_results' = CollectElements(elems, all_results, limit)
              /\ pc' = IF grew THEN "lead_scroll" ELSE "lead_keyword"
              /\ keyword' = IF grew THEN keyword ELSE keyword + 1
       ELSE /\ pc' = "lead_keyword"
            /\ keyword' = keyword + 1
            /\ UNCHANGED all_results
    /\ UNCHANGED <<diskVars, current_page, processed_urls, page, path, execs,
                   mainHist, poolVars, workVars, ckVars, retryVars, navVars,
                   csvVars, closeVars, endVars, posVars, limit, idx, body_runs,
                   detail_errors>>

\* One iteration of for company_data in all_results: no record has phones
\* yet, so extract_company_details(driver, company_data["link"]) is called;
\* an exception is logged by the loop's except clause.
LeadDetail ==
    /\ pc = "lead_detail"
    /\ idx <= Len(all_results)
    /\ LET r == CallResult(extract_company_details, 2) IN
       IF r = "body_run"
       THEN /\ \E failed \in BOOLEAN, runs \in 1..MaxAttempts :
                 /\ body_runs' = body_runs + runs
                 /\ detail_errors' = detail_errors + (IF failed THEN 1 ELSE 0)
       ELSE /\ detail_errors' = detail_errors + 1
            /\ UNCHANGED body_runs
    /\ idx' = idx + 1
    /\ UNCHANGED <<diskVars, mainVars, mainHist, poolVars, workVars, ckVars,
                   retryVars, navVars, csvVars, closeVars, endVars, posVars,
                   limit, keyword, all_results>>

\* The detail loop is over: driver.quit() and the output.
LeadEnd ==
    /\ pc = "lead_detail"
    /\ idx > Len(all_results)
    /\ pc' = "lead_done"
    /\ UNCHANGED <<diskVars, current_page, processed_urls, page, path, execs,
                   mainHist, poolVars, workVars, ckVars, retryVars, navVars,
                   csvVars, closeVars, endVars, posVars, leadVars>>

NextLead ==
    \/ LeadKeyword
    \/ LeadScroll
    \/ LeadDetail
    \/ LeadEnd

SpecLead == InitLead /\ [][NextLead]_vars

\* C38: every call extract_company_details(driver, company_url) the detail
\* loop has made executed the extraction body at least once.
C38_BodyExecuted ==
    (pc \in {"lead_detail", "lead_done"} /\ idx > 1) => body_runs >= idx - 1

\* C39: all through the collection phase all_results holds at most
\* args.limit companies and no link twice.
C39_LimitAndDistinct ==
    /\ Len(all_results) <= limit
    /\ \A i, j \in DOMAIN all_results : i # j => all_results[i] # all_results[j]

\* all_results was filled up to a limit of two while the results of the
\* second keyword were scrolled.
C39_Witness ==
    /\ pc = "lead_scroll"
    /\ keyword = 2
    /\ limit = 2
    /\ Len(all_results) = 2

\* ------------------------------------------- the two wrappers side by side
\* What the wrapper saw of each invocation so far.
Results(evs) == [i \in DOMAIN evs |-> FuncResult(evs[i])]

\* The wrapper's locals when it is entered: attempt = 0, current_delay = delay.
WrapperStart(pol) ==
    [attempt |-> 0, cur |-> PolicyDelay(pol), calls |-> 0, sleeps |-> <<>>,
     pc |-> "r_call", result |-> "none"]

\* The wrapper of pol.impl run over the results res of its invocations of
\* the wrapped function: return on a value, let pass what except Exception
\* does not catch, count the attempt, raise when the attempts are used up,
\* else sleep and go round the loop.
RECURSIVE WrapperRun(_, _, _)
WrapperRun(pol, res, st) ==
    IF res = <<>> \/ st.pc # "r_call" THEN st
    ELSE LET r == Head(res)
             att == st.attempt + 1
             called == [st EXCEPT !.calls = @ + 1]
         IN IF r \in {"ok", "placeholder"}
            THEN [called EXCEPT !.pc = "r_returned", !.result = r]
            ELSE IF ~except_Exception(r)
            THEN [called EXCEPT !.pc = "r_interrupted"]
            ELSE IF RetryExhausted(att, pol.max_attempts)
            THEN [called EXCEPT !.attempt = att, !.pc = "r_raised"]
            ELSE WrapperRun(pol, Tail(res),
                     [called EXCEPT
                        !.attempt = att,
                        !.sleeps = Append(@, SleepTime(pol, att, st.cur)),
                        !.cur = NextDelay(pol, st.cur),
                        !.pc = IF att < pol.max_attempts THEN "r_call" ELSE "r_none"])

SameDelays(s, t) ==
    /\ Len(s) = Len(t)
    /\ \A i \in DOMAIN s : FracEq(s[i], t[i])

SameBehaviour(a, b) ==
    /\ a.calls = b.calls
    /\ SameDelays(a.sleeps, b.sleeps)
    /\ a.pc = b.pc
    /\ a.result = b.result

RunOf(impl) ==
    WrapperRun([policy EXCEPT !.impl = impl], Results(outcomes),
               WrapperStart([policy EXCEPT !.impl = impl]))

====
